---- MODULE Spec2Model ----
(***************************************************************************)
(* Model of the wave simulator: the CoreLogic engine (core/CoreLogic.cpp), *)
(* the host loop of main.cpp and the parts of Gui (ui/Gui.cpp) that read   *)
(* or write the engine, the pause/running flags, the theme state and the   *)
(* panel layout.                                                           *)
(*                                                                         *)
(* Numbers.  The program computes in float; the model computes the same    *)
(* expressions in exact fixed point (integers over a stated denominator),  *)
(* so float rounding error is outside the model:                           *)
(*   time_        in 1/TimeScale seconds                                   *)
(*   frequency_   in 1/FreqScale Hz                                        *)
(*   amplitude_   in 1/AmpScale                                            *)
(*   noise_       in 1/NoiseScale                                          *)
(*   phase_ and every angle in 1/TURN of a period (2*pi radians = TURN)    *)
(*   a base wave value in 1/BaseScale, a sample in 1/(BaseScale*AmpScale)  *)
(*   a colour component in 1/ColorScale                                    *)
(*   a panel percentage in 1/PercentScale percent, a length in             *)
(*   1/PixelScale pixels                                                   *)
(***************************************************************************)
EXTENDS Integers, Sequences, FiniteSets, TLC

(***************************************************************************)
(* Bounds of the model.                                                    *)
(***************************************************************************)
\* Update calls explored after the user's first possible input.
MaxTicks == 2
\* User inputs (SDL events and widget activations) in one run.
MaxInputs == 1
\* Characters after "current_theme=" in a preference file.
MaxIndexLen == 3
\* Key presses in one run of the theme shortcuts.
MaxKeys == 6
\* Direct calls and widget activations between the frames of one run.
MaxCalls == 2
\* Panel setter calls and splitter movements in one run of the layout.
MaxPanelCalls == 1
\* Theme widget activations in one run of the notification timer.
MaxThemeChanges == 1

(***************************************************************************)
(* Program constants and fixed-point resolutions.                          *)
(***************************************************************************)
MAX_VALUES == 500

TimeScale == 600
FreqScale == 10
AmpScale == 10
NoiseScale == 10
TURN == 6000
BaseScale == 60000
UScale == 2
ColorScale == 25500

SampleScale == BaseScale * AmpScale
PercentScale == 100
PixelScale == 10

\* enum class WaveType
SINE == 0
COSINE == 1
SQUARE == 2
TRIANGLE == 3
SAWTOOTH == 4
WaveTypes == {SINE, COSINE, SQUARE, TRIANGLE, SAWTOOTH}

(***************************************************************************)
(* Values a slider, colour editor or the random source can deliver: the    *)
(* ends of each range; the presets write values in between.                *)
(***************************************************************************)
\* SliderFloat("##Frequency", 0.1, 100): 0.1 and 100 Hz
FrequencyValues == {1, 1000}
\* SliderFloat("##Amplitude", 0.1, 10): 0.1 and 10
AmplitudeValues == {1, 100}
\* SliderFloat("##FPS", 5, 600)
FpsValues == {5, 600}
\* SliderFloat("##Phase", 0, 6.28): 0, pi/2 and 6.28 rad
PhaseValues == {0, 1500, 5997}
\* SliderFloat("##Noise", 0, 1): 0, 0.5 and 1
NoiseValues == {0, 5, 10}
\* ColorEdit3 results (r, g, b)
ColorValues == {<<25500, 0, 12750>>}
\* uniform_real_distribution<float>(-1, 1): -1, 0 and 0.5
UValues == {-2, 0, 1}
\* ImGui::GetIO().DeltaTime of a frame, in seconds
DeltaTimes == {1, 2}

(***************************************************************************)
(* Values typed into a slider.  Ctrl+Click turns an ImGui slider into a    *)
(* text field, and only ImGuiSliderFlags_AlwaysClamp, which none of the    *)
(* SliderFloat calls passes, clamps what is typed to the slider's range.   *)
(***************************************************************************)
\* 200 Hz typed into "##Frequency"
TypedFrequencies == {200 * FreqScale}
\* 0 typed into "##Amplitude"
TypedAmplitudes == {0}
\* 1 typed into "##FPS"
TypedFps == {1}
\* -pi/2 typed into "##Phase"
TypedPhases == {-(TURN \div 4)}
\* 2 typed into "##Noise"
TypedNoises == {2 * NoiseScale}

(***************************************************************************)
(* std::sin, std::cos over angles in 1/TURN periods.  QuarterSin is        *)
(* sin(x) * BaseScale at every 3 degrees of the first quadrant; values     *)
(* between two entries are interpolated linearly.                          *)
(***************************************************************************)
QuarterSin ==
  << 0, 3140, 6272, 9386, 12475, 15529, 18541, 21502, 24404, 27239, 30000,
     32678, 35267, 37759, 40148, 42426, 44589, 46629, 48541, 50320, 51962,
     53460, 54813, 56015, 57063, 57956, 58689, 59261, 59671, 59918, 60000 >>

TableStep == TURN \div 120

SinQuadrant(x) ==
  LET i == x \div TableStep
      r == x % TableStep
  IN IF r = 0
       THEN QuarterSin[i + 1]
       ELSE QuarterSin[i + 1]
            + ((QuarterSin[i + 2] - QuarterSin[i + 1]) * r) \div TableStep

Sin(angle) ==
  LET a == angle % TURN
      q == TURN \div 4
  IN IF a <= q THEN SinQuadrant(a)
     ELSE IF a <= 2 * q THEN SinQuadrant(2 * q - a)
     ELSE IF a <= 3 * q THEN -SinQuadrant(a - 2 * q)
     ELSE -SinQuadrant(TURN - a)

Cos(angle) == Sin(angle + TURN \div 4)

\* fmod(x, 1.0f) on an angle in periods: the remainder has the sign of x.
Fmod1(angle) == IF angle >= 0 THEN angle % TURN ELSE -((-angle) % TURN)

(***************************************************************************)
(* CoreLogic                                                               *)
(***************************************************************************)
\* A constructor that leaves time_ as it finds it.
CoreLogicInitStaleTime ==
  [ frequency_ |-> 1 * FreqScale,
    amplitude_ |-> 1 * AmpScale,
    phase_ |-> 0,
    noise_ |-> 0,
    time_ |-> 7,
    fps_ |-> 60,
    wave_type_ |-> SINE,
    wave_color_ |-> <<6630, 15045, 24990>>,
    bg_color_ |-> <<3060, 3570, 4590>>,
    sine_wave_values_ |-> << >> ]

\* The member initialisers and the constructor.
CoreLogicInit ==
  [ frequency_ |-> 1 * FreqScale,
    amplitude_ |-> 1 * AmpScale,
    phase_ |-> 0,
    noise_ |-> 0,
    time_ |-> 0,
    fps_ |-> 60,
    wave_type_ |-> SINE,
    wave_color_ |-> <<6630, 15045, 24990>>,
    bg_color_ |-> <<3060, 3570, 4590>>,
    sine_wave_values_ |-> << >> ]

\* A normalisation that leaves a negative remainder as it is.
NormalizedWithoutWrap(adjusted_time) == Fmod1(adjusted_time)

\* normalized = fmod(adjusted_time / (2 pi), 1); if (normalized < 0) += 1
Normalized(adjusted_time) ==
  LET n == Fmod1(adjusted_time)
  IN IF n < 0 THEN n + TURN ELSE n

\* A switch whose square wave tests sin > 0.
BaseValueStrictSquare(wave_type, adjusted_time) ==
  CASE wave_type = SINE -> Sin(adjusted_time)
    [] wave_type = COSINE -> Cos(adjusted_time)
    [] wave_type = SQUARE ->
         IF Sin(adjusted_time) > 0 THEN BaseScale ELSE -BaseScale
    [] wave_type = TRIANGLE ->
         LET n == Normalized(adjusted_time)
         IN IF 4 * n < TURN
              THEN (4 * n * BaseScale) \div TURN
              ELSE IF 4 * n < 3 * TURN
                     THEN 2 * BaseScale - (4 * n * BaseScale) \div TURN
                     ELSE (4 * n * BaseScale) \div TURN - 4 * BaseScale
    [] wave_type = SAWTOOTH ->
         LET n == Normalized(adjusted_time)
         IN (2 * n * BaseScale) \div TURN - BaseScale
    [] OTHER -> 0

\* The switch over wave_type_: the base value in 1/BaseScale.
BaseValue(wave_type, adjusted_time) ==
  CASE wave_type = SINE -> Sin(adjusted_time)
    [] wave_type = COSINE -> Cos(adjusted_time)
    [] wave_type = SQUARE ->
         IF Sin(adjusted_time) >= 0 THEN BaseScale ELSE -BaseScale
    [] wave_type = TRIANGLE ->
         LET n == Normalized(adjusted_time)
         IN IF 4 * n < TURN
              THEN (4 * n * BaseScale) \div TURN
              ELSE IF 4 * n < 3 * TURN
                     THEN 2 * BaseScale - (4 * n * BaseScale) \div TURN
                     ELSE (4 * n * BaseScale) \div TURN - 4 * BaseScale
    [] wave_type = SAWTOOTH ->
         LET n == Normalized(adjusted_time)
         IN (2 * n * BaseScale) \div TURN - BaseScale
    [] OTHER -> 0

\* A noise term that does not depend on the noise level.
NoiseTermUnscaled(c, u) == (c.amplitude_ * u * BaseScale) \div UScale

\* A noise term of twice the range.
NoiseTermDoubleRange(c, u) ==
  IF c.noise_ > 0
    THEN (2 * c.noise_ * c.amplitude_ * u * BaseScale) \div (NoiseScale * UScale)
    ELSE 0

\* The noise term: drawn only when noise_ > 0.
NoiseTerm(c, u) ==
  IF c.noise_ > 0
    THEN (c.noise_ * c.amplitude_ * u * BaseScale) \div (NoiseScale * UScale)
    ELSE 0

\* adjusted_time = 2 pi frequency_ time + phase_, in 1/TURN periods.
AdjustedTime(c, time) ==
  c.frequency_ * time * (TURN \div (FreqScale * TimeScale)) + c.phase_

\* A GenerateWaveValue that forgets the amplitude.
GenerateWaveValueUnitAmplitude(c, time, u) ==
  BaseValue(c.wave_type_, AdjustedTime(c, time)) * AmpScale + NoiseTerm(c, u)

\* GenerateWaveValue(time); u is the value dis(gen) returns if it is called.
GenerateWaveValue(c, time, u) ==
  BaseValue(c.wave_type_, AdjustedTime(c, time)) * c.amplitude_ + NoiseTerm(c, u)

\* A step that assumes 60 FPS whatever fps_ is.
AdvanceTimeFixedStep(c) == c.time_ + TimeScale \div 60

\* time_ += 1 / fps_
AdvanceTime(c) == c.time_ + TimeScale \div c.fps_

\* Eviction one element too late.
EraseOldestLate(values) ==
  IF Len(values) > MAX_VALUES + 1 THEN Tail(values) ELSE values

\* Eviction one element too early.
EraseOldestEarly(values) ==
  IF Len(values) >= MAX_VALUES THEN Tail(values) ELSE values

\* Eviction at the wrong end.
EraseNewest(values) ==
  IF Len(values) > MAX_VALUES THEN SubSeq(values, 1, Len(values) - 1) ELSE values

\* if (size > MAX_VALUES) erase(begin)
EraseOldest(values) ==
  IF Len(values) > MAX_VALUES THEN Tail(values) ELSE values

\* An Update that inserts the new sample at the front.
UpdatePushFront(c, u) ==
  LET t == c.time_ + TimeScale \div c.fps_
      value == GenerateWaveValue(c, t, u)
  IN [c EXCEPT !.time_ = t,
               !.sine_wave_values_ =
                 IF Len(@) >= MAX_VALUES
                   THEN <<value>> \o SubSeq(@, 1, Len(@) - 1)
                   ELSE <<value>> \o @]

\* An Update that also accumulates the angle in phase_.
UpdateAccumulatingPhase(c, u) ==
  LET t == c.time_ + TimeScale \div c.fps_
      value == GenerateWaveValue(c, t, u)
      pushed == Append(c.sine_wave_values_, value)
  IN [c EXCEPT !.time_ = t,
               !.phase_ = (@ + c.frequency_) % TURN,
               !.sine_wave_values_ =
                 IF Len(pushed) > MAX_VALUES THEN Tail(pushed) ELSE pushed]

\* An Update that generates the sample before it advances the time.
UpdateSampleBeforeAdvance(c, u) ==
  LET value == GenerateWaveValue(c, c.time_, u)
  IN [c EXCEPT !.time_ = AdvanceTime(c),
               !.sine_wave_values_ = EraseOldest(Append(@, value))]

\* CoreLogic::Update
Update(c, u) ==
  LET t == AdvanceTime(c)
      value == GenerateWaveValue(c, t, u)
  IN [c EXCEPT !.time_ = t,
               !.sine_wave_values_ = EraseOldest(Append(@, value))]

\* CoreLogic::Update statement by statement.
\* time_ += 1 / fps_;
UpdateTime(c) == [c EXCEPT !.time_ = AdvanceTime(c)]

\* float value = GenerateWaveValue(time_); sine_wave_values_.push_back(value);
UpdatePushBack(c, u) ==
  [c EXCEPT !.sine_wave_values_ = Append(@, GenerateWaveValue(c, c.time_, u))]

\* An erase statement that removes nothing.
UpdateEraseNothing(c) == c

\* if (sine_wave_values_.size() > MAX_VALUES) erase(begin());
UpdateErase(c) == [c EXCEPT !.sine_wave_values_ = EraseOldest(@)]

SetWaveColor(c, rgb) == [c EXCEPT !.wave_color_ = rgb]

SetBgColor(c, rgb) == [c EXCEPT !.bg_color_ = rgb]


(***************************************************************************)
(* Themes (ui/include/Themes.hpp)                                          *)
(***************************************************************************)
\* HexToImVec4: each byte / 255
HexToImVec4(r, g, b) ==
  << (r * ColorScale) \div 255, (g * ColorScale) \div 255, (b * ColorScale) \div 255 >>

\* Themes::themes[], index 0 first
themes ==
  << [name |-> "Ocean Blue", primary |-> HexToImVec4(66, 135, 245)],
     [name |-> "Sunset Orange", primary |-> HexToImVec4(210, 105, 30)],
     [name |-> "Electric Lime", primary |-> HexToImVec4(107, 142, 35)],
     [name |-> "Romantic Rose", primary |-> HexToImVec4(244, 63, 94)],
     [name |-> "Forest Emerald", primary |-> HexToImVec4(16, 185, 129)],
     [name |-> "Deep Indigo", primary |-> HexToImVec4(99, 102, 241)] >>

GetThemeCount == Len(themes)

\* themes[i] with the program's 0-based index
ThemeAt(i) == themes[i + 1]

(***************************************************************************)
(* Gui: the state it owns, and the file config/theme.cfg                   *)
(***************************************************************************)
\* Gui::Gui and the member initialisers of Gui.hpp
GuiInit ==
  [ running |-> TRUE,
    paused |-> FALSE,
    currentThemeIndex |-> 0,
    themeChanged |-> FALSE,
    showThemeNotification |-> FALSE,
    themeNotificationTimer |-> 0,
    currentThemeName |-> "Ocean Blue",
    usePercentageSizing |-> TRUE,
    leftSidebarWidthPercent |-> 15 * PercentScale,
    rightSidebarWidthPercent |-> 20 * PercentScale,
    bottomPanelHeightPercent |-> 25 * PercentScale,
    currentLeftSidebarWidth |-> 320 * PixelScale,
    currentRightSidebarWidth |-> 300 * PixelScale,
    currentBottomBarHeight |-> 300 * PixelScale ]

(***************************************************************************)
(* Panel layout.  A percentage is an integer number of 1/PercentScale      *)
(* percent and a length an integer number of 1/PixelScale pixels; a        *)
(* quotient is rounded down.  The three panels are visible.                *)
(***************************************************************************)
minPanelWidth == 200 * PixelScale
minPanelHeight == 100 * PixelScale
splitterThickness == 4 * PixelScale

\* std::max, std::clamp and ImClamp
MaxOf(a, b) == IF a > b THEN a ELSE b

Clamp(v, lo, hi) == IF v < lo THEN lo ELSE IF hi < v THEN hi ELSE v

ImClamp(v, mn, mx) == IF v < mn THEN mn ELSE IF v > mx THEN mx ELSE v

\* availableWidth * (percent / 100.0f)
PercentOf(length, percent) == (length * percent) \div (100 * PercentScale)

\* (width / availableWidth) * 100.0f
PercentFrom(width, availableWidth) ==
  (width * 100 * PercentScale) \div availableWidth

\* availableWidth * 0.8f
SidebarShare(availableWidth) == (availableWidth * 8) \div 10

\* A sizing that leaves the minimum constraints out.
CalculateResponsivePanelSizesWithoutMinimum(g, availableWidth, availableHeight) ==
  IF g.usePercentageSizing
    THEN LET left == PercentOf(availableWidth, g.leftSidebarWidthPercent)
             right == PercentOf(availableWidth, g.rightSidebarWidthPercent)
             bottom == PercentOf(availableHeight, g.bottomPanelHeightPercent)
             totalSidebarWidth == left + right
             share == SidebarShare(availableWidth)
         IN IF totalSidebarWidth > share
              THEN [g EXCEPT
                      !.currentLeftSidebarWidth = (left * share) \div totalSidebarWidth,
                      !.currentRightSidebarWidth = (right * share) \div totalSidebarWidth,
                      !.currentBottomBarHeight = bottom]
              ELSE [g EXCEPT !.currentLeftSidebarWidth = left,
                             !.currentRightSidebarWidth = right,
                             !.currentBottomBarHeight = bottom]
    ELSE g

\* Gui::CalculateResponsivePanelSizes
CalculateResponsivePanelSizes(g, availableWidth, availableHeight) ==
  IF g.usePercentageSizing
    THEN LET left == MaxOf(PercentOf(availableWidth, g.leftSidebarWidthPercent),
                           minPanelWidth)
             right == MaxOf(PercentOf(availableWidth, g.rightSidebarWidthPercent),
                            minPanelWidth)
             bottom == MaxOf(PercentOf(availableHeight, g.bottomPanelHeightPercent),
                             minPanelHeight)
             totalSidebarWidth == left + right
             share == SidebarShare(availableWidth)
         IN IF totalSidebarWidth > share
              THEN [g EXCEPT
                      !.currentLeftSidebarWidth = (left * share) \div totalSidebarWidth,
                      !.currentRightSidebarWidth = (right * share) \div totalSidebarWidth,
                      !.currentBottomBarHeight = bottom]
              ELSE [g EXCEPT !.currentLeftSidebarWidth = left,
                             !.currentRightSidebarWidth = right,
                             !.currentBottomBarHeight = bottom]
    ELSE g

\* A setter that clamps each percentage and leaves their sum alone.
SetPanelWidthPercentClampOnly(g, leftPercent, rightPercent) ==
  [g EXCEPT
     !.leftSidebarWidthPercent =
        Clamp(leftPercent, 10 * PercentScale, 40 * PercentScale),
     !.rightSidebarWidthPercent =
        Clamp(rightPercent, 10 * PercentScale, 40 * PercentScale)]

\* Gui::SetPanelWidthPercent
SetPanelWidthPercent(g, leftPercent, rightPercent) ==
  LET left == Clamp(leftPercent, 10 * PercentScale, 40 * PercentScale)
      right == Clamp(rightPercent, 10 * PercentScale, 40 * PercentScale)
      total == left + right
  IN IF total > 70 * PercentScale
       THEN [g EXCEPT
               !.leftSidebarWidthPercent = (left * 70 * PercentScale) \div total,
               !.rightSidebarWidthPercent = (right * 70 * PercentScale) \div total]
       ELSE [g EXCEPT !.leftSidebarWidthPercent = left,
                      !.rightSidebarWidthPercent = right]

\* Gui::SetBottomPanelHeightPercent
SetBottomPanelHeightPercent(g, heightPercent) ==
  [g EXCEPT !.bottomPanelHeightPercent =
              Clamp(heightPercent, 10 * PercentScale, 50 * PercentScale)]

\* Gui::ResetPanelSizes
ResetPanelSizes(g) ==
  [g EXCEPT !.leftSidebarWidthPercent = 20 * PercentScale,
            !.rightSidebarWidthPercent = 25 * PercentScale,
            !.bottomPanelHeightPercent = 30 * PercentScale,
            !.usePercentageSizing = TRUE]

\* RenderMainInterface: the sidebars make room for a centre of at least
\* minPanelWidth
CenterMinimum(g, availableWidth) ==
  LET usedWidth == g.currentLeftSidebarWidth + splitterThickness
                   + g.currentRightSidebarWidth + splitterThickness
      centerWidth == availableWidth - usedWidth
      excess == minPanelWidth - centerWidth
  IN IF centerWidth < minPanelWidth
       THEN [g EXCEPT !.currentLeftSidebarWidth = @ - excess \div 2,
                      !.currentRightSidebarWidth = @ - excess \div 2]
       ELSE g

\* RenderMainInterface: the left splitter is held and the mouse has moved
DragLeftSplitter(g, availableWidth, MouseDelta) ==
  LET width == ImClamp(g.currentLeftSidebarWidth + MouseDelta, minPanelWidth,
                       availableWidth - minPanelWidth
                       - (g.currentRightSidebarWidth + splitterThickness))
  IN [g EXCEPT !.currentLeftSidebarWidth = width,
               !.leftSidebarWidthPercent =
                  IF g.usePercentageSizing
                    THEN PercentFrom(width, availableWidth) ELSE @]

\* RenderMainInterface: the right splitter is held and the mouse has moved
DragRightSplitter(g, availableWidth, MouseDelta) ==
  LET width == ImClamp(g.currentRightSidebarWidth - MouseDelta, minPanelWidth,
                       availableWidth - minPanelWidth
                       - (g.currentLeftSidebarWidth + splitterThickness))
  IN [g EXCEPT !.currentRightSidebarWidth = width,
               !.rightSidebarWidthPercent =
                  IF g.usePercentageSizing
                    THEN PercentFrom(width, availableWidth) ELSE @]

\* RenderMainInterface: the bottom splitter is held and the mouse has moved
DragBottomSplitter(g, availableHeight, MouseDelta) ==
  LET height == ImClamp(g.currentBottomBarHeight - MouseDelta, minPanelHeight,
                        (availableHeight * 6) \div 10)
  IN [g EXCEPT !.currentBottomBarHeight = height,
               !.bottomPanelHeightPercent =
                  IF g.usePercentageSizing
                    THEN PercentFrom(height, availableHeight) ELSE @]

\* RenderMainInterface: a double click on a splitter
ResetSplitter(g, splitter) ==
  CASE splitter = "left" ->
         [g EXCEPT !.leftSidebarWidthPercent = 20 * PercentScale,
                   !.usePercentageSizing = TRUE]
    [] splitter = "right" ->
         [g EXCEPT !.rightSidebarWidthPercent = 25 * PercentScale,
                   !.usePercentageSizing = TRUE]
    [] splitter = "bottom" ->
         [g EXCEPT !.bottomPanelHeightPercent = 30 * PercentScale,
                   !.usePercentageSizing = TRUE]

\* Decimal text, as operator<< writes an int and std::stoi reads it: a
\* sequence of characters.
Digits == <<"0", "1", "2", "3", "4", "5", "6", "7", "8", "9">>

DigitValue(ch) == CHOOSE d \in 0..9 : Digits[d + 1] = ch

RECURSIVE NatToText(_)
NatToText(n) ==
  IF n < 10 THEN <<Digits[n + 1]>>
  ELSE Append(NatToText(n \div 10), Digits[(n % 10) + 1])

\* configFile << currentThemeIndex
IntToText(n) == IF n < 0 THEN <<"-">> \o NatToText(-n) ELSE NatToText(n)

IsDigit(ch) == \E d \in 1..10 : Digits[d] = ch

RECURSIVE DigitPrefixValue(_, _)
DigitPrefixValue(text, acc) ==
  IF text = << >> \/ ~IsDigit(Head(text)) THEN acc
  ELSE DigitPrefixValue(Tail(text), acc * 10 + DigitValue(Head(text)))

\* std::stoi: an optional sign, then the leading digits; it throws
\* std::invalid_argument (ok = FALSE) when there is no digit to convert.
Stoi(text) ==
  LET signed == text # << >> /\ Head(text) \in {"-", "+"}
      body == IF signed THEN Tail(text) ELSE text
  IN IF body = << >> \/ ~IsDigit(Head(body))
       THEN [ok |-> FALSE, value |-> 0]
       ELSE [ok |-> TRUE,
             value |-> IF signed /\ Head(text) = "-"
                         THEN -DigitPrefixValue(body, 0)
                         ELSE DigitPrefixValue(body, 0)]

\* config/theme.cfg: absent, or its two lines current_theme= and theme_name=
NoFile == [exists |-> FALSE, current_theme |-> << >>, theme_name |-> ""]

ThemeFile(indexText, name) ==
  [exists |-> TRUE, current_theme |-> indexText, theme_name |-> name]

\* Contents config/theme.cfg can have when the program starts: none, or
\* what an earlier run saved.
ConfigFiles == {NoFile, ThemeFile(<<"2">>, "Electric Lime")}

\* The program state the Gui methods work on: the engine, the Gui object,
\* the static Themes::currentTheme and the preference file.
ProgramState(c, g, t, f) == [core |-> c, gui |-> g, theme |-> t, file |-> f]

\* An ApplyTheme that also restarts the wave.
ApplyThemeRestartingWave(st, themeIndex) ==
  IF themeIndex >= 0 /\ themeIndex < GetThemeCount
    THEN [st EXCEPT
            !.gui = [@ EXCEPT !.currentThemeIndex = themeIndex,
                              !.themeChanged = FALSE,
                              !.currentThemeName = ThemeAt(themeIndex).name,
                              !.showThemeNotification = TRUE,
                              !.themeNotificationTimer = 3],
            !.theme = ThemeAt(themeIndex),
            !.core = [SetWaveColor(@, ThemeAt(themeIndex).primary)
                        EXCEPT !.phase_ = 0, !.sine_wave_values_ = << >>]]
    ELSE st

\* An ApplyTheme that brings an index out of range to the nearest theme.
ApplyThemeClamped(st, themeIndex) ==
  LET i == IF themeIndex < 0 THEN 0
           ELSE IF themeIndex >= GetThemeCount THEN GetThemeCount - 1
           ELSE themeIndex
  IN [st EXCEPT
        !.gui = [@ EXCEPT !.currentThemeIndex = i,
                          !.themeChanged = FALSE,
                          !.currentThemeName = ThemeAt(i).name,
                          !.showThemeNotification = TRUE,
                          !.themeNotificationTimer = 3],
        !.theme = ThemeAt(i),
        !.core = SetWaveColor(@, ThemeAt(i).primary)]

\* An ApplyTheme that leaves the wave colour alone.
ApplyThemeKeepingWaveColor(st, themeIndex) ==
  IF themeIndex >= 0 /\ themeIndex < GetThemeCount
    THEN [st EXCEPT
            !.gui = [@ EXCEPT !.currentThemeIndex = themeIndex,
                              !.themeChanged = FALSE,
                              !.currentThemeName = ThemeAt(themeIndex).name,
                              !.showThemeNotification = TRUE,
                              !.themeNotificationTimer = 3],
            !.theme = ThemeAt(themeIndex)]
    ELSE st

\* Gui::ApplyTheme
ApplyTheme(st, themeIndex) ==
  IF themeIndex >= 0 /\ themeIndex < GetThemeCount
    THEN [st EXCEPT
            !.gui = [@ EXCEPT !.currentThemeIndex = themeIndex,
                              !.themeChanged = FALSE,
                              !.currentThemeName = ThemeAt(themeIndex).name,
                              !.showThemeNotification = TRUE,
                              !.themeNotificationTimer = 3],
            !.theme = ThemeAt(themeIndex),
            !.core = SetWaveColor(@, ThemeAt(themeIndex).primary)]
    ELSE st

\* A save that counts the themes from 1.
SaveThemePreferenceOneBased(st) ==
  [st EXCEPT !.file = ThemeFile(IntToText(st.gui.currentThemeIndex + 1),
                                st.gui.currentThemeName)]

\* Gui::SaveThemePreference
SaveThemePreference(st) ==
  [st EXCEPT !.file = ThemeFile(IntToText(st.gui.currentThemeIndex),
                                st.gui.currentThemeName)]

\* An index line that trusts the saved index.
LoadIndexLineUnchecked(g, themeIndex) == [g EXCEPT !.currentThemeIndex = themeIndex]

\* The "current_theme=" line of Gui::LoadThemePreference
LoadIndexLine(g, themeIndex) ==
  IF themeIndex >= 0 /\ themeIndex < GetThemeCount
    THEN [g EXCEPT !.currentThemeIndex = themeIndex]
    ELSE [g EXCEPT !.currentThemeIndex = 0]

\* The "theme_name=" line of Gui::LoadThemePreference
LoadNameLine(g, savedThemeName) ==
  IF savedThemeName \in {"Royal Purple", "Golden Amber"}
    THEN [g EXCEPT !.currentThemeIndex = 0, !.currentThemeName = "Ocean Blue"]
    ELSE [g EXCEPT !.currentThemeName = savedThemeName]

\* Gui::LoadThemePreference: std::stoi throws on a non-numeric index and the
\* catch block ends the reading of the file.
LoadThemePreference(st) ==
  LET themeIndex == Stoi(st.file.current_theme)
      g == IF ~st.file.exists THEN st.gui
           ELSE IF ~themeIndex.ok THEN st.gui
           ELSE LoadNameLine(LoadIndexLine(st.gui, themeIndex.value),
                             st.file.theme_name)
  IN ApplyTheme([st EXCEPT !.gui = g], g.currentThemeIndex)

\* Gui::ResetThemeToDefault
ResetThemeToDefault(st) == SaveThemePreference(ApplyTheme(st, 0))

(***************************************************************************)
(* Writes through the reference accessors of CoreLogic.hpp                 *)
(***************************************************************************)
WriteFrequency(c, v) == [c EXCEPT !.frequency_ = v]
WriteAmplitude(c, v) == [c EXCEPT !.amplitude_ = v]
WriteFps(c, v) == [c EXCEPT !.fps_ = v]
WritePhase(c, v) == [c EXCEPT !.phase_ = v]
WriteNoise(c, v) == [c EXCEPT !.noise_ = v]
WriteWaveType(c, v) == [c EXCEPT !.wave_type_ = v]

(***************************************************************************)
(* Widgets of Gui::Render: what one activated widget does to the program   *)
(* state.                                                                  *)
(***************************************************************************)
\* Gui::TogglePause, from the Pause/Resume button
TogglePause(st) == [st EXCEPT !.gui.paused = ~@]

\* File > Exit
ExitMenuItem(st) == [st EXCEPT !.gui.running = FALSE]

\* The three sliders of RenderControlPanelContent
ControlSliders(st) ==
  {[st EXCEPT !.core = WriteFrequency(@, v)] :
     v \in FrequencyValues \cup TypedFrequencies}
  \cup {[st EXCEPT !.core = WriteAmplitude(@, v)] :
          v \in AmplitudeValues \cup TypedAmplitudes}
  \cup {[st EXCEPT !.core = WriteFps(@, v)] : v \in FpsValues \cup TypedFps}

\* Quick presets: Low Freq, High Freq, Smooth, Chaotic
QuickPresets(st) ==
  { [st EXCEPT !.core = WriteAmplitude(WriteFrequency(@, 1 * FreqScale), 5 * AmpScale)],
    [st EXCEPT !.core = WriteAmplitude(WriteFrequency(@, 50 * FreqScale), 2 * AmpScale)],
    [st EXCEPT !.core = WriteFps(WriteAmplitude(WriteFrequency(@, 5 * FreqScale),
                                                 3 * AmpScale), 60)],
    [st EXCEPT !.core = WriteFps(WriteAmplitude(WriteFrequency(@, 25 * FreqScale),
                                                 8 * AmpScale), 120)] }

\* The wave type buttons and the wave type combo
WaveTypeWidgets(st) == {[st EXCEPT !.core = WriteWaveType(@, w)] : w \in WaveTypes}

\* The phase and noise sliders of the Wave tab
WaveTabSliders(st) ==
  {[st EXCEPT !.core = WritePhase(@, v)] : v \in PhaseValues \cup TypedPhases}
  \cup {[st EXCEPT !.core = WriteNoise(@, v)] : v \in NoiseValues \cup TypedNoises}

\* Custom colours: the two colour editors and Reset to Theme Colors
ColorWidgets(st) ==
  {[st EXCEPT !.core = SetWaveColor(@, rgb)] : rgb \in ColorValues}
  \cup {[st EXCEPT !.core = SetBgColor(@, rgb)] : rgb \in ColorValues}
  \cup {[st EXCEPT !.core = SetBgColor(SetWaveColor(@, st.theme.primary),
                                      <<3060, 3570, 4590>>)]}

\* A Reset All that also restarts the simulated time.
StatusButtonsResetTime(st) ==
  { st,
    [st EXCEPT !.core = [WriteFps(WriteAmplitude(WriteFrequency(@, 5 * FreqScale),
                                                  5 * AmpScale), 60)
                           EXCEPT !.time_ = 0]] }

\* Status panel: Clear Data and Screenshot do nothing yet; Reset All
StatusButtons(st) ==
  { st,
    [st EXCEPT !.core = WriteFps(WriteAmplitude(WriteFrequency(@, 5 * FreqScale),
                                                 5 * AmpScale), 60)] }

\* View > Theme menu items and Reset to Default
ThemeMenu(st) ==
  {SaveThemePreference(ApplyTheme(st, i)) : i \in 0..(GetThemeCount - 1)}
  \cup {ResetThemeToDefault(st)}

\* Theme buttons that count the themes from 1.
ThemeSelectorsOneBased(st) ==
  {[st EXCEPT !.gui.currentThemeIndex = i + 1, !.theme = ThemeAt(i),
              !.gui.themeChanged = TRUE] : i \in 0..(GetThemeCount - 1)}

\* The theme buttons of the Themes tab and the theme combo of the settings
\* modal: both select the theme and leave applying it to Gui::Update.
ThemeSelectors(st) ==
  {[st EXCEPT !.gui.currentThemeIndex = i, !.theme = ThemeAt(i),
              !.gui.themeChanged = TRUE] : i \in 0..(GetThemeCount - 1)}

\* Every state one widget activation of a frame can lead to.
RenderOutcomes(st) ==
  {TogglePause(st), ExitMenuItem(st)}
  \cup ControlSliders(st) \cup QuickPresets(st) \cup WaveTypeWidgets(st)
  \cup WaveTabSliders(st) \cup ColorWidgets(st) \cup StatusButtons(st)
  \cup ThemeMenu(st) \cup ThemeSelectors(st)

(***************************************************************************)
(* Gui::ProcessEvents and Gui::Update                                      *)
(***************************************************************************)
\* SDL events the handler distinguishes.
Events ==
  { [type |-> "SDL_QUIT", sym |-> "", ctrl |-> FALSE, shift |-> FALSE],
    [type |-> "SDL_KEYDOWN", sym |-> "t", ctrl |-> TRUE, shift |-> FALSE],
    [type |-> "SDL_KEYDOWN", sym |-> "t", ctrl |-> TRUE, shift |-> TRUE],
    [type |-> "SDL_KEYDOWN", sym |-> "t", ctrl |-> FALSE, shift |-> TRUE],
    [type |-> "SDL_KEYDOWN", sym |-> "x", ctrl |-> TRUE, shift |-> FALSE] }

\* A next-theme shortcut that stops at the last theme.
NextThemeKeyWithoutWrap(st, event) ==
  IF event.type = "SDL_KEYDOWN" /\ event.sym = "t" /\ event.ctrl
    THEN SaveThemePreference(ApplyTheme(st, st.gui.currentThemeIndex + 1))
    ELSE st

\* Ctrl+T: cycle to the next theme
NextThemeKey(st, event) ==
  IF event.type = "SDL_KEYDOWN" /\ event.sym = "t" /\ event.ctrl
    THEN SaveThemePreference(
           ApplyTheme(st, (st.gui.currentThemeIndex + 1) % GetThemeCount))
    ELSE st

\* Ctrl+Shift+T: cycle to the previous theme
PrevThemeKey(st, event) ==
  IF event.type = "SDL_KEYDOWN" /\ event.sym = "t" /\ event.ctrl /\ event.shift
    THEN SaveThemePreference(
           ApplyTheme(st, (st.gui.currentThemeIndex - 1 + GetThemeCount)
                          % GetThemeCount))
    ELSE st

\* An event loop in which a key toggles the pause flag.
HandleEventTogglingPause(st, event) ==
  LET quit == IF event.type = "SDL_QUIT"
                THEN [st EXCEPT !.gui.running = FALSE] ELSE st
      toggled == IF event.type = "SDL_KEYDOWN" /\ event.sym = "x"
                   THEN TogglePause(quit) ELSE quit
  IN PrevThemeKey(NextThemeKey(toggled, event), event)

\* The body of the SDL_PollEvent loop for one event
HandleEvent(st, event) ==
  LET quit == IF event.type = "SDL_QUIT"
                THEN [st EXCEPT !.gui.running = FALSE] ELSE st
  IN PrevThemeKey(NextThemeKey(quit, event), event)

\* A Gui::Update that stops the timer instead of hiding the notification.
GuiUpdateNeverHiding(st, DeltaTime) ==
  LET applied == IF st.gui.themeChanged
                   THEN SaveThemePreference(ApplyTheme(st, st.gui.currentThemeIndex))
                   ELSE st
  IN IF applied.gui.showThemeNotification
          /\ applied.gui.themeNotificationTimer - DeltaTime > 0
       THEN [applied EXCEPT !.gui.themeNotificationTimer = @ - DeltaTime]
       ELSE applied

\* Gui::Update: apply a selected theme, then run the notification timer
GuiUpdate(st, DeltaTime) ==
  LET applied == IF st.gui.themeChanged
                   THEN SaveThemePreference(ApplyTheme(st, st.gui.currentThemeIndex))
                   ELSE st
      timer == applied.gui.themeNotificationTimer - DeltaTime
  IN IF applied.gui.showThemeNotification
       THEN [applied EXCEPT !.gui.themeNotificationTimer = timer,
                            !.gui.showThemeNotification = ~(timer <= 0)]
       ELSE applied

(***************************************************************************)
(* The program: main() of main.cpp                                         *)
(***************************************************************************)
VARIABLES
  coreLogic,    \* CoreLogic coreLogic
  gui,          \* Gui gui(coreLogic)
  currentTheme, \* Themes::currentTheme
  configFile,   \* config/theme.cfg
  platform,     \* "native" or "emscripten": which loop the build has
  pc,           \* where main is
  idleTicks,    \* Update calls before the user first touches the program
  inputs,       \* user inputs so far
  nticks,       \* Update calls so far
  generated,    \* every sample generated so far, in order
  iterUpdates,  \* Update calls in the current loop iteration
  iterPaused,   \* the pause flag as the current iteration tested it
  tickRates,    \* the values fps_ had at the Update calls so far
  twin,         \* a second CoreLogic, for the two-engine specification
  noisy,        \* some Update so far ran with noise_ > 0
  args,         \* the arguments of a method that is called on its own
  result        \* what that call returned

programVars == <<coreLogic, gui, currentTheme, configFile>>
vars == <<coreLogic, gui, currentTheme, configFile, platform, pc, idleTicks,
          inputs, nticks, generated, iterUpdates, iterPaused, tickRates, twin,
          noisy, args, result>>

State == ProgramState(coreLogic, gui, currentTheme, configFile)

\* The program state after an operation of the Gui
Becomes(st) ==
  /\ coreLogic' = st.core
  /\ gui' = st.gui
  /\ currentTheme' = st.theme
  /\ configFile' = st.file

\* Runs in which the user touches nothing until the history is full, besides
\* those in which the user acts from the start.
IdleRuns == {0, MAX_VALUES}

InputAllowed == nticks >= idleTicks /\ inputs < MaxInputs

\* CoreLogic coreLogic; Gui gui(coreLogic);
Init ==
  /\ coreLogic = CoreLogicInit
  /\ gui = GuiInit
  /\ currentTheme = ThemeAt(0)
  /\ configFile \in ConfigFiles
  /\ platform \in {"native", "emscripten"}
  /\ pc = "start"
  /\ idleTicks \in IdleRuns
  /\ inputs = 0
  /\ nticks = 0
  /\ generated = << >>
  /\ iterUpdates = 0
  /\ iterPaused = "untested"
  /\ tickRates = {}
  /\ twin = CoreLogicInit
  /\ noisy = FALSE
  /\ args = << >>
  /\ result = << >>

\* if (!gui.Initialize()) return 1;  Initialize ends with LoadThemePreference
Initialize ==
  /\ pc = "start"
  /\ \E ok \in BOOLEAN :
       IF ok
         THEN Becomes(LoadThemePreference(State)) /\ pc' = "loop"
         ELSE UNCHANGED programVars /\ pc' = "exit"
  /\ UNCHANGED <<platform, idleTicks, inputs, nticks, generated, iterUpdates,
                 iterPaused>>
  /\ UNCHANGED <<tickRates, twin, noisy, args, result>>

\* A loop that never tests the running flag.
LoopTestIgnoringRunning ==
  /\ pc = "loop" /\ platform = "native"
  /\ pc' = "tick"
  /\ iterUpdates' = 0 /\ iterPaused' = "untested"
  /\ UNCHANGED programVars
  /\ UNCHANGED <<platform, idleTicks, inputs, nticks, generated>>
  /\ UNCHANGED <<tickRates, twin, noisy, args, result>>

\* while (gui.IsRunning())
LoopTest ==
  /\ pc = "loop" /\ platform = "native"
  /\ pc' = IF gui.running THEN "tick" ELSE "exit"
  /\ iterUpdates' = 0 /\ iterPaused' = "untested"
  /\ UNCHANGED programVars
  /\ UNCHANGED <<platform, idleTicks, inputs, nticks, generated>>
  /\ UNCHANGED <<tickRates, twin, noisy, args, result>>

\* One call of Gui::ProcessEvents: no event pending, or one
PollEvents ==
  \/ UNCHANGED programVars /\ UNCHANGED inputs
  \/ /\ InputAllowed
     /\ \E event \in Events : Becomes(HandleEvent(State, event))
     /\ inputs' = inputs + 1

\* emscripten_loop: gui->ProcessEvents() at the head of the callback
EmscriptenEvents ==
  /\ pc = "loop" /\ platform = "emscripten"
  /\ PollEvents
  /\ pc' = "tick"
  /\ iterUpdates' = 0 /\ iterPaused' = "untested"
  /\ UNCHANGED <<platform, idleTicks, nticks, generated>>
  /\ UNCHANGED <<tickRates, twin, noisy, args, result>>

\* A loop body that calls Update whatever the pause flag says.
TickIgnoringPause ==
  /\ pc = "tick"
  /\ iterPaused' = IF gui.paused THEN "paused" ELSE "running"
  /\ nticks < idleTicks + MaxTicks
  /\ \E u \in UValues :
       /\ coreLogic' = Update(coreLogic, u)
       /\ generated' =
            Append(generated, GenerateWaveValue(coreLogic, AdvanceTime(coreLogic), u))
  /\ nticks' = nticks + 1
  /\ iterUpdates' = iterUpdates + 1
  /\ tickRates' = tickRates \cup {coreLogic.fps_}
  /\ noisy' = (noisy \/ coreLogic.noise_ > 0)
  /\ pc' = "events"
  /\ UNCHANGED <<gui, currentTheme, configFile, platform, idleTicks, inputs>>
  /\ UNCHANGED <<twin, args, result>>

\* if (!gui.IsPaused()) coreLogic.Update();
Tick ==
  /\ pc = "tick"
  /\ iterPaused' = IF gui.paused THEN "paused" ELSE "running"
  /\ IF gui.paused
       THEN UNCHANGED <<coreLogic, nticks, generated, iterUpdates, tickRates, noisy>>
       ELSE /\ nticks < idleTicks + MaxTicks
            /\ \E u \in UValues :
                 /\ coreLogic' = Update(coreLogic, u)
                 /\ generated' =
                      Append(generated,
                             GenerateWaveValue(coreLogic, AdvanceTime(coreLogic), u))
            /\ nticks' = nticks + 1
            /\ iterUpdates' = iterUpdates + 1
            /\ tickRates' = tickRates \cup {coreLogic.fps_}
            /\ noisy' = (noisy \/ coreLogic.noise_ > 0)
  /\ pc' = "events"
  /\ UNCHANGED <<gui, currentTheme, configFile, platform, idleTicks, inputs>>
  /\ UNCHANGED <<twin, args, result>>

\* Gui::Run: ProcessEvents();
ProcessEvents ==
  /\ pc = "events"
  /\ PollEvents
  /\ pc' = "update"
  /\ UNCHANGED <<platform, idleTicks, nticks, generated, iterUpdates, iterPaused>>
  /\ UNCHANGED <<tickRates, twin, noisy, args, result>>

\* Gui::Run: Update();
UpdateGui ==
  /\ pc = "update"
  /\ \E DeltaTime \in DeltaTimes : Becomes(GuiUpdate(State, DeltaTime))
  /\ pc' = "render"
  /\ UNCHANGED <<platform, idleTicks, inputs, nticks, generated, iterUpdates,
                 iterPaused>>
  /\ UNCHANGED <<tickRates, twin, noisy, args, result>>

\* Gui::Run: Render(); at most one widget is activated in a frame
Render ==
  /\ pc = "render"
  /\ \/ UNCHANGED programVars /\ UNCHANGED inputs
     \/ /\ InputAllowed
        /\ \E st \in RenderOutcomes(State) : Becomes(st)
        /\ inputs' = inputs + 1
  /\ pc' = "loop"
  /\ UNCHANGED <<platform, idleTicks, nticks, generated, iterUpdates, iterPaused>>
  /\ UNCHANGED <<tickRates, twin, noisy, args, result>>

Next ==
  \/ Initialize
  \/ LoopTest
  \/ EmscriptenEvents
  \/ Tick
  \/ ProcessEvents
  \/ UpdateGui
  \/ Render

Spec == Init /\ [][Next]_vars

(***************************************************************************)
(* The engine on its own: two CoreLogic objects, constructed alike, that   *)
(* a caller drives with the same writes and the same Update calls.  Each   *)
(* object's Update takes its own value from the random source.             *)
(***************************************************************************)
\* A write through one of the reference accessors: the member and the value.
ParameterWrites ==
  [field : {"frequency_"}, value : FrequencyValues \cup {1 * FreqScale, 50 * FreqScale}]
  \cup [field : {"amplitude_"}, value : AmplitudeValues]
  \cup [field : {"fps_"}, value : FpsValues \cup {60, 120}]
  \cup [field : {"phase_"}, value : PhaseValues]
  \cup [field : {"noise_"}, value : NoiseValues]
  \cup [field : {"wave_type_"}, value : WaveTypes]

InitEngine ==
  /\ coreLogic = CoreLogicInit
  /\ twin = CoreLogicInit
  /\ gui = GuiInit
  /\ currentTheme = ThemeAt(0)
  /\ configFile = NoFile
  /\ platform = "native"
  /\ pc = "engine"
  /\ idleTicks = 0
  /\ inputs = 0
  /\ nticks = 0
  /\ generated = << >>
  /\ iterUpdates = 0
  /\ iterPaused = "untested"
  /\ tickRates = {}
  /\ noisy = FALSE
  /\ args = << >>
  /\ result = << >>

\* The caller writes one parameter of both engines.
EngineWrite ==
  /\ pc = "engine"
  /\ inputs < MaxInputs
  /\ \E w \in ParameterWrites :
       /\ coreLogic' = [coreLogic EXCEPT ![w.field] = w.value]
       /\ twin' = [twin EXCEPT ![w.field] = w.value]
  /\ inputs' = inputs + 1
  /\ UNCHANGED <<gui, currentTheme, configFile, platform, pc, idleTicks, nticks,
                 generated, iterUpdates, iterPaused, tickRates, noisy, args, result>>

\* The caller sets a colour of both engines.
EngineSetColor ==
  /\ pc = "engine"
  /\ inputs < MaxInputs
  /\ \E rgb \in ColorValues :
       \/ coreLogic' = SetWaveColor(coreLogic, rgb) /\ twin' = SetWaveColor(twin, rgb)
       \/ coreLogic' = SetBgColor(coreLogic, rgb) /\ twin' = SetBgColor(twin, rgb)
  /\ inputs' = inputs + 1
  /\ UNCHANGED <<gui, currentTheme, configFile, platform, pc, idleTicks, nticks,
                 generated, iterUpdates, iterPaused, tickRates, noisy, args, result>>

\* The caller calls Update on both engines.
EngineUpdate ==
  /\ pc = "engine"
  /\ nticks < MaxTicks
  /\ \E u \in UValues, v \in UValues :
       /\ coreLogic' = Update(coreLogic, u)
       /\ twin' = Update(twin, v)
       /\ generated' =
            Append(generated, GenerateWaveValue(coreLogic, AdvanceTime(coreLogic), u))
  /\ nticks' = nticks + 1
  /\ tickRates' = tickRates \cup {coreLogic.fps_}
  /\ noisy' = (noisy \/ coreLogic.noise_ > 0 \/ twin.noise_ > 0)
  /\ UNCHANGED <<gui, currentTheme, configFile, platform, pc, idleTicks, inputs,
                 iterUpdates, iterPaused, args, result>>

NextEngine == EngineWrite \/ EngineSetColor \/ EngineUpdate

SpecEngine == InitEngine /\ [][NextEngine]_vars

(***************************************************************************)
(* Gui::Initialize on its own, over the contents config/theme.cfg can have *)
(* when someone else wrote it.                                             *)
(***************************************************************************)
\* Characters of the text after "current_theme="
IndexChars == {"-", "0", "2", "5", "6", "9", "x"}

IndexTexts == UNION {[1..n -> IndexChars] : n \in 0..MaxIndexLen}

\* The text after "theme_name=": a theme, a removed theme, anything else
SavedNames == {"Ocean Blue", "Deep Indigo", "Royal Purple", "Golden Amber", "?"}

LoadFiles ==
  {NoFile} \cup {ThemeFile(text, name) : text \in IndexTexts, name \in SavedNames}

InitLoad ==
  /\ coreLogic = CoreLogicInit
  /\ twin = CoreLogicInit
  /\ gui = GuiInit
  /\ currentTheme = ThemeAt(0)
  /\ configFile \in LoadFiles
  /\ platform = "native"
  /\ pc = "start"
  /\ idleTicks = 0
  /\ inputs = 0
  /\ nticks = 0
  /\ generated = << >>
  /\ iterUpdates = 0
  /\ iterPaused = "untested"
  /\ tickRates = {}
  /\ noisy = FALSE
  /\ args = << >>
  /\ result = << >>

NextLoad == Initialize

SpecLoad == InitLoad /\ [][NextLoad]_vars

(***************************************************************************)
(* CoreLogic::Update statement by statement: an engine whose Update is     *)
(* followed through its three statements, and beside it one whose Update   *)
(* is taken whole.                                                         *)
(***************************************************************************)
InitSteps ==
  /\ coreLogic = CoreLogicInit
  /\ twin = CoreLogicInit
  /\ gui = GuiInit
  /\ currentTheme = ThemeAt(0)
  /\ configFile = NoFile
  /\ platform = "native"
  /\ pc = "call"
  /\ idleTicks = 0
  /\ inputs = 0
  /\ nticks = 0
  /\ generated = << >>
  /\ iterUpdates = 0
  /\ iterPaused = "untested"
  /\ tickRates = {}
  /\ noisy = FALSE
  /\ args = << >>
  /\ result = << >>

\* Before the first Update the caller selects a wave type.
StepWrite ==
  /\ pc = "call"
  /\ nticks = 0
  /\ inputs < MaxInputs
  /\ \E w \in WaveTypes :
       /\ coreLogic' = WriteWaveType(coreLogic, w)
       /\ twin' = WriteWaveType(twin, w)
  /\ inputs' = inputs + 1
  /\ UNCHANGED <<gui, currentTheme, configFile, platform, pc, idleTicks, nticks,
                 generated, iterUpdates, iterPaused, tickRates, noisy, args, result>>

\* Update is entered: time_ += 1 / fps_
StepTime ==
  /\ pc = "call"
  /\ nticks < MAX_VALUES + MaxTicks
  /\ coreLogic' = UpdateTime(coreLogic)
  /\ pc' = "push_back"
  /\ UNCHANGED <<gui, currentTheme, configFile, platform, idleTicks, inputs, nticks,
                 generated, iterUpdates, iterPaused, tickRates, twin, noisy, args,
                 result>>

\* value = GenerateWaveValue(time_); push_back(value)
StepPushBack ==
  /\ pc = "push_back"
  /\ \E u \in UValues :
       /\ coreLogic' = UpdatePushBack(coreLogic, u)
       /\ twin' = Update(twin, u)
  /\ pc' = "erase"
  /\ UNCHANGED <<gui, currentTheme, configFile, platform, idleTicks, inputs, nticks,
                 generated, iterUpdates, iterPaused, tickRates, noisy, args, result>>

\* if (size() > MAX_VALUES) erase(begin()); and Update returns
StepErase ==
  /\ pc = "erase"
  /\ coreLogic' = UpdateErase(coreLogic)
  /\ nticks' = nticks + 1
  /\ pc' = "call"
  /\ UNCHANGED <<gui, currentTheme, configFile, platform, idleTicks, inputs,
                 generated, iterUpdates, iterPaused, tickRates, twin, noisy, args,
                 result>>

NextSteps == StepWrite \/ StepTime \/ StepPushBack \/ StepErase

SpecSteps == InitSteps /\ [][NextSteps]_vars

(***************************************************************************)
(* The theme shortcuts on their own: a program that has started with a     *)
(* preference file an earlier run saved (or none), receives key events,    *)
(* and is at some point closed and started again.                          *)
(***************************************************************************)
\* What SaveThemePreference has written in an earlier run.
SavedFiles ==
  {NoFile}
  \cup {ThemeFile(IntToText(i), ThemeAt(i).name) : i \in 0..(GetThemeCount - 1)}

\* main up to the loop: the constructors and a successful Gui::Initialize
Started(file) ==
  LoadThemePreference(ProgramState(CoreLogicInit, GuiInit, ThemeAt(0), file))

\* The variables that follow the engine's Update calls, with none made.
NoUpdates ==
  /\ twin = CoreLogicInit
  /\ platform = "native"
  /\ idleTicks = 0
  /\ nticks = 0
  /\ generated = << >>
  /\ iterUpdates = 0
  /\ iterPaused = "untested"
  /\ tickRates = {}
  /\ noisy = FALSE

updateVars ==
  <<twin, platform, idleTicks, nticks, generated, iterUpdates, iterPaused,
    tickRates, noisy>>

\* result in this specification: the program state before the last step,
\* the theme index at which the current run of plain Ctrl+T presses began
\* and the number of presses in that run.
InitTheme ==
  /\ \E file \in SavedFiles :
       /\ coreLogic = Started(file).core
       /\ gui = Started(file).gui
       /\ currentTheme = Started(file).theme
       /\ configFile = Started(file).file
       /\ result = [before |-> Started(file),
                    start |-> Started(file).gui.currentThemeIndex,
                    presses |-> 0]
  /\ NoUpdates
  /\ pc = "loop"
  /\ inputs = 0
  /\ args = << >>

\* Ctrl+T with Shift not held
PlainCtrlT(event) ==
  event.type = "SDL_KEYDOWN" /\ event.sym = "t" /\ event.ctrl /\ ~event.shift

\* Gui::ProcessEvents with one event in the queue; args is the event
KeyDown ==
  /\ pc \in {"loop", "key"}
  /\ inputs < MaxKeys
  /\ \E event \in Events :
       /\ Becomes(HandleEvent(State, event))
       /\ args' = event
       /\ result' = IF PlainCtrlT(event)
                      THEN [before |-> State,
                            start |-> result.start,
                            presses |-> result.presses + 1]
                      ELSE [before |-> State,
                            start |-> HandleEvent(State, event).gui.currentThemeIndex,
                            presses |-> 0]
  /\ inputs' = inputs + 1
  /\ pc' = "key"
  /\ UNCHANGED updateVars

\* The program is closed and started again: new objects, the same file.
Restart ==
  /\ pc \in {"loop", "key"}
  /\ Becomes(Started(configFile))
  /\ result' = [result EXCEPT !.before = State]
  /\ pc' = "restarted"
  /\ UNCHANGED <<inputs, args>>
  /\ UNCHANGED updateVars

NextTheme == KeyDown \/ Restart

SpecTheme == InitTheme /\ [][NextTheme]_vars

(***************************************************************************)
(* ApplyTheme and the notification timer on their own: direct calls of     *)
(* ApplyTheme with any index, the widgets that set a custom colour or      *)
(* select a theme for the next Gui::Update, and frames of Gui::Update.     *)
(***************************************************************************)
\* The indices ApplyTheme is called with: two beyond the table on each side.
ApplyIndices == (-2)..(GetThemeCount + 1)

InitApply ==
  /\ \E file \in SavedFiles :
       /\ coreLogic = Started(file).core
       /\ gui = Started(file).gui
       /\ currentTheme = Started(file).theme
       /\ configFile = Started(file).file
       /\ result = [before |-> Started(file)]
  /\ NoUpdates
  /\ pc = "loop"
  /\ inputs = 0
  /\ args = [themeIndex |-> 0]

\* Gui::ApplyTheme(themeIndex); args is the call's argument and result the
\* program state before the call
CallApplyTheme ==
  /\ inputs < MaxCalls
  /\ \E themeIndex \in ApplyIndices :
       /\ Becomes(ApplyTheme(State, themeIndex))
       /\ args' = [themeIndex |-> themeIndex]
  /\ result' = [before |-> State]
  /\ inputs' = inputs + 1
  /\ pc' = "applied"
  /\ UNCHANGED updateVars

\* a colour picker or colour preset of the Wave tab
PickColor ==
  /\ inputs < MaxCalls
  /\ \E st \in ColorWidgets(State) : Becomes(st)
  /\ inputs' = inputs + 1
  /\ pc' = "widget"
  /\ UNCHANGED <<args, result>>
  /\ UNCHANGED updateVars

\* a theme button of the Themes tab or the combo of the Settings tab
SelectTheme ==
  /\ inputs < MaxCalls
  /\ \E st \in ThemeSelectors(State) : Becomes(st)
  /\ inputs' = inputs + 1
  /\ pc' = "widget"
  /\ UNCHANGED <<args, result>>
  /\ UNCHANGED updateVars

\* Gui::Update(DeltaTime) of one frame
Frame ==
  /\ \E DeltaTime \in DeltaTimes : Becomes(GuiUpdate(State, DeltaTime))
  /\ pc' = "frame"
  /\ UNCHANGED <<inputs, args, result>>
  /\ UNCHANGED updateVars

NextApply == CallApplyTheme \/ PickColor \/ SelectTheme \/ Frame

SpecApply == InitApply /\ [][NextApply]_vars

\* A theme is chosen in the View > Theme menu, which applies it at once, or
\* with a theme button or the combo, which leave it to the next Gui::Update.
ThemeWidgets ==
  /\ inputs < MaxThemeChanges
  /\ \E st \in ThemeMenu(State) \cup ThemeSelectors(State) :
       /\ Becomes(st)
       /\ pc' = IF st.gui.themeChanged THEN "widget" ELSE "applied"
  /\ inputs' = inputs + 1
  /\ UNCHANGED <<args, result>>
  /\ UNCHANGED updateVars

NextFrames == ThemeWidgets \/ Frame

\* Frames keep running: Gui::Run calls Update in every iteration of the loop.
SpecFrames == InitApply /\ [][NextFrames]_vars /\ WF_vars(Frame)

(***************************************************************************)
(* The panel layout on its own: the setters, and the frames of             *)
(* RenderMainInterface in two steps, CalculateResponsivePanelSizes and the *)
(* rest of the layout with its splitters.                                  *)
(***************************************************************************)
AvailableWidths == {400 * PixelScale, 499 * PixelScale, 500 * PixelScale,
                    1920 * PixelScale}

AvailableHeights == {300 * PixelScale, 1000 * PixelScale}

WidthPercents == {0, 10 * PercentScale, 25 * PercentScale, 30 * PercentScale,
                  40 * PercentScale, 45 * PercentScale, 100 * PercentScale}

HeightPercents == {0, 30 * PercentScale, 60 * PercentScale}

MouseDeltas == {-2000 * PixelScale, 300 * PixelScale, 2000 * PixelScale}

\* args is the arguments of the last call; result is the Gui before it.
InitPanels ==
  /\ coreLogic = CoreLogicInit
  /\ gui = GuiInit
  /\ currentTheme = ThemeAt(0)
  /\ configFile = NoFile
  /\ NoUpdates
  /\ pc = "loop"
  /\ inputs = 0
  /\ args = [availableWidth |-> 1920 * PixelScale,
             availableHeight |-> 1000 * PixelScale,
             leftPercent |-> 15 * PercentScale,
             rightPercent |-> 20 * PercentScale]
  /\ result = [before |-> GuiInit]

panelFrame == <<coreLogic, currentTheme, configFile>>

CallSetPanelWidthPercent ==
  /\ pc # "sized"
  /\ inputs < MaxPanelCalls
  /\ \E leftPercent \in WidthPercents, rightPercent \in WidthPercents :
       /\ gui' = SetPanelWidthPercent(gui, leftPercent, rightPercent)
       /\ args' = [args EXCEPT !.leftPercent = leftPercent,
                               !.rightPercent = rightPercent]
  /\ result' = [before |-> gui]
  /\ inputs' = inputs + 1
  /\ pc' = "widths"
  /\ UNCHANGED panelFrame
  /\ UNCHANGED updateVars

CallSetBottomPanelHeightPercent ==
  /\ pc # "sized"
  /\ inputs < MaxPanelCalls
  /\ \E heightPercent \in HeightPercents :
       gui' = SetBottomPanelHeightPercent(gui, heightPercent)
  /\ result' = [before |-> gui]
  /\ inputs' = inputs + 1
  /\ pc' = "height"
  /\ UNCHANGED <<args, panelFrame>>
  /\ UNCHANGED updateVars

CallResetPanelSizes ==
  /\ pc # "sized"
  /\ inputs < MaxPanelCalls
  /\ gui' = ResetPanelSizes(gui)
  /\ result' = [before |-> gui]
  /\ inputs' = inputs + 1
  /\ pc' = "reset"
  /\ UNCHANGED <<args, panelFrame>>
  /\ UNCHANGED updateVars

\* View menu: Responsive (Percentage) or Fixed (Pixels)
SetSizingMode ==
  /\ pc # "sized"
  /\ inputs < MaxPanelCalls
  /\ \E mode \in BOOLEAN : gui' = [gui EXCEPT !.usePercentageSizing = mode]
  /\ result' = [before |-> gui]
  /\ inputs' = inputs + 1
  /\ pc' = "mode"
  /\ UNCHANGED <<args, panelFrame>>
  /\ UNCHANGED updateVars

\* RenderMainInterface up to the call of CalculateResponsivePanelSizes
CallCalculateResponsivePanelSizes ==
  /\ pc # "sized"
  /\ \E availableWidth \in AvailableWidths, availableHeight \in AvailableHeights :
       /\ gui' = CalculateResponsivePanelSizes(gui, availableWidth, availableHeight)
       /\ args' = [args EXCEPT !.availableWidth = availableWidth,
                               !.availableHeight = availableHeight]
  /\ result' = [before |-> gui]
  /\ pc' = "sized"
  /\ UNCHANGED <<inputs, panelFrame>>
  /\ UNCHANGED updateVars

\* What the splitters of one frame can do to the Gui: nothing, one drag or
\* one double click.
SplitterOutcomes(g, availableWidth, availableHeight) ==
  {g}
  \cup {DragLeftSplitter(g, availableWidth, d) : d \in MouseDeltas}
  \cup {DragRightSplitter(g, availableWidth, d) : d \in MouseDeltas}
  \cup {DragBottomSplitter(g, availableHeight, d) : d \in MouseDeltas}
  \cup {ResetSplitter(g, splitter) : splitter \in {"left", "right", "bottom"}}

\* RenderMainInterface after the call: the centre's minimum, the splitters
LayoutPanels ==
  /\ pc = "sized"
  /\ \E g \in SplitterOutcomes(CenterMinimum(gui, args.availableWidth),
                                args.availableWidth, args.availableHeight) :
       /\ g # CenterMinimum(gui, args.availableWidth) => inputs < MaxPanelCalls
       /\ gui' = g
       /\ inputs' = IF g # CenterMinimum(gui, args.availableWidth)
                      THEN inputs + 1 ELSE inputs
  /\ pc' = "frame"
  /\ UNCHANGED <<args, result, panelFrame>>
  /\ UNCHANGED updateVars

NextPanels ==
  \/ CallSetPanelWidthPercent
  \/ CallSetBottomPanelHeightPercent
  \/ CallResetPanelSizes
  \/ SetSizingMode
  \/ CallCalculateResponsivePanelSizes
  \/ LayoutPanels

SpecPanels == InitPanels /\ [][NextPanels]_vars

(***************************************************************************)
(* GenerateWaveValue on its own: an engine whose wave type, amplitude and  *)
(* phase were written through the accessors, and one call with a time.     *)
(***************************************************************************)
\* Phases written through GetPhase(): every angle from one and a quarter
\* periods below zero to one and a quarter periods above.
WavePhases == (-(TURN + TURN \div 4))..(TURN + TURN \div 4)

\* Amplitudes written through GetAmplitude(): 1 and 2
WaveAmplitudes == {1 * AmpScale, 2 * AmpScale}

\* The time argument: 0 and 1/60 s
WaveTimes == {0, TimeScale \div 60}

InitWave ==
  /\ \E w \in WaveTypes, a \in WaveAmplitudes, p \in WavePhases :
       coreLogic = WritePhase(WriteAmplitude(WriteWaveType(CoreLogicInit, w), a), p)
  /\ twin = CoreLogicInit
  /\ gui = GuiInit
  /\ currentTheme = ThemeAt(0)
  /\ configFile = NoFile
  /\ platform = "native"
  /\ pc = "wave"
  /\ idleTicks = 0
  /\ inputs = 0
  /\ nticks = 0
  /\ generated = << >>
  /\ iterUpdates = 0
  /\ iterPaused = "untested"
  /\ tickRates = {}
  /\ noisy = FALSE
  /\ args = [time |-> 0]
  /\ result = 0

\* value = GenerateWaveValue(time)
CallGenerateWaveValue ==
  /\ pc = "wave"
  /\ \E time \in WaveTimes, u \in UValues :
       /\ args' = [time |-> time]
       /\ result' = GenerateWaveValue(coreLogic, time, u)
  /\ pc' = "returned"
  /\ UNCHANGED <<coreLogic, gui, currentTheme, configFile, platform, idleTicks,
                 inputs, nticks, generated, iterUpdates, iterPaused, tickRates,
                 twin, noisy>>

NextWave == CallGenerateWaveValue

SpecWave == InitWave /\ [][NextWave]_vars

(***************************************************************************)
(* Properties                                                              *)
(***************************************************************************)
history == coreLogic.sine_wave_values_

Min(a, b) == IF a < b THEN a ELSE b

Max(a, b) == IF a > b THEN a ELSE b

\* C1: between operations the sample history never holds more than
\* MAX_VALUES elements, whatever Update calls, parameter writes, pause
\* toggles and theme operations came before.
C1_HistoryBounded == Len(history) <= MAX_VALUES

\* C1 witness: the history is full and an Update has already evicted a
\* sample, after a user input.
C1_FullAfterEviction ==
  Len(history) = MAX_VALUES /\ nticks > MAX_VALUES /\ inputs > 0

\* C2: after n Update calls on a fresh engine the history length is
\* min(n, MAX_VALUES).
C2_LengthIsMinOfTicksAndCapacity == Len(history) = Min(nticks, MAX_VALUES)

\* C2 witness: one Update more than the capacity, with a parameter written
\* in between.
C2_OnePastCapacity ==
  nticks = MAX_VALUES + 1 /\ inputs > 0 /\ coreLogic.frequency_ # 1 * FreqScale

\* C3: after n Update calls the history is the generated samples number
\* max(0, n - MAX_VALUES) .. n - 1, oldest first.
C3_HistoryIsNewestWindow ==
  history = SubSeq(generated, Max(0, nticks - MAX_VALUES) + 1, nticks)

\* C3 witness: after MAX_VALUES + 1 Update calls the first element is the
\* second sample generated, and it differs from the first, evicted one.
C3_FirstSampleEvicted ==
  /\ nticks = MAX_VALUES + 1
  /\ history[1] = generated[2]
  /\ generated[1] # generated[2]

\* C4: one Update appends exactly one sample at the end and removes exactly
\* the front element if and only if the history held MAX_VALUES elements
\* before; the other samples keep their values and order.
C4_UpdateAppendsAndEvictsFront ==
  [][nticks' = nticks + 1 =>
       LET old == coreLogic.sine_wave_values_
           new == coreLogic'.sine_wave_values_
           value == generated'[nticks']
       IN IF Len(old) = MAX_VALUES
            THEN new = Append(Tail(old), value)
            ELSE new = Append(old, value)]_vars

\* C4 witness: two evictions have happened and the last Update ran with a
\* parameter the user changed.
C4_SecondEviction ==
  nticks = MAX_VALUES + 2 /\ Len(history) = MAX_VALUES /\ inputs > 0

C6_TimeIsTicksOverRate ==
  /\ [](\A f \in tickRates :
          tickRates = {f} => coreLogic.time_ * f = nticks * TimeScale)
  /\ [][nticks' = nticks + 1 =>
          (coreLogic'.time_ - coreLogic.time_) * coreLogic.fps_ = TimeScale]_vars

\* C6 witness: the rate was set to 5 FPS before the first Update and two
\* Update calls ran at it.
C6_TwoTicksAtFiveFps == tickRates = {5} /\ nticks = 2

\* C7: in every loop iteration Update runs once if the pause flag is false
\* when the iteration tests it, and not at all if it is true; never more
\* than once, and not before the test.
C7_OneTickPerIteration ==
  /\ iterUpdates <= 1
  /\ iterPaused = "untested" => iterUpdates = 0
  /\ iterPaused = "paused" => iterUpdates = 0
  /\ iterPaused = "running" => iterUpdates = 1

\* C7 witness: an Emscripten callback that found the program paused has
\* gone through its second ProcessEvents and Gui::Update without an Update.
C7_PausedEmscriptenFrame ==
  /\ platform = "emscripten"
  /\ iterPaused = "paused"
  /\ pc = "render"
  /\ nticks > 0

\* C8: two fresh engines driven by the same writes and Update calls have
\* the same simulated time and the same history after every step, as long
\* as every Update ran with noise_ = 0.
C8_NoiseFreeDeterminism ==
  ~noisy => /\ coreLogic.time_ = twin.time_
            /\ coreLogic.sine_wave_values_ = twin.sine_wave_values_

\* C8 witness: two noise-free Update calls on both engines and a write of
\* the wave type.
C8_TwoQuietTicks ==
  /\ pc = "engine"
  /\ ~noisy
  /\ nticks = 2
  /\ Len(twin.sine_wave_values_) = 2
  /\ twin.wave_type_ # SINE

\* C9: Update changes simulated time and the history only: wave type,
\* frequency, amplitude, phase, noise level, sample rate and both colours
\* are after every Update what they were before it.
C9_UpdateKeepsParameters ==
  [][nticks' = nticks + 1 =>
       coreLogic' = [coreLogic EXCEPT
                       !.time_ = coreLogic'.time_,
                       !.sine_wave_values_ = coreLogic'.sine_wave_values_]]_vars

\* C9 witness: an Update has run after the user selected the square wave.
C9_TickAfterWrite ==
  /\ pc = "events"
  /\ nticks = 2
  /\ inputs > 0
  /\ coreLogic.wave_type_ = SQUARE

\* C10: a freshly constructed CoreLogic has wave type Sine, frequency 1,
\* amplitude 1, phase 0, noise 0, sample rate 60, an empty history and
\* simulated time 0.
C10_FreshEngineDefaults ==
  pc = "start" =>
    /\ coreLogic.wave_type_ = SINE
    /\ coreLogic.frequency_ = 1 * FreqScale
    /\ coreLogic.amplitude_ = 1 * AmpScale
    /\ coreLogic.phase_ = 0
    /\ coreLogic.noise_ = 0
    /\ coreLogic.fps_ = 60
    /\ coreLogic.sine_wave_values_ = << >>
    /\ coreLogic.time_ = 0

\* C10 witness: main has constructed the engine and done nothing else.
C10_JustConstructed == pc = "start" /\ nticks = 0 /\ inputs = 0

\* C11: within one Update the time is advanced first and the sample is
\* generated at the advanced time, so the k-th sample is evaluated at the
\* time reached after k increments; with the default parameters the first
\* sample is the sine at t = 1/60, not at t = 0.
C11_SampleAtAdvancedTime ==
  /\ [][nticks' = nticks + 1 =>
          \E u \in UValues :
            coreLogic'.sine_wave_values_[Len(coreLogic'.sine_wave_values_)]
              = GenerateWaveValue(coreLogic, coreLogic'.time_, u)]_vars
  /\ []((nticks >= 1 /\ inputs = 0) =>
          /\ generated[1] = Sin(TURN \div 60) * AmpScale
          /\ generated[1] # Sin(0) * AmpScale)

\* C11 witness: the first Update of an untouched engine has run.
C11_FirstDefaultSample ==
  /\ nticks = 1
  /\ inputs = 0
  /\ coreLogic.time_ = TimeScale \div 60
  /\ history = <<Sin(TURN \div 60) * AmpScale>>

\* The engine right after an Update of the current loop iteration.
JustUpdated == pc = "events" /\ iterUpdates = 1

\* Amplitude times the base wave value at the engine's time and parameters.
NoiselessValue ==
  BaseValue(coreLogic.wave_type_, AdjustedTime(coreLogic, coreLogic.time_))
    * coreLogic.amplitude_

\* The newest sample minus the noiseless value.
Deviation == history[Len(history)] - NoiselessValue

\* noise level times amplitude, in sample units.
NoiseLimit == (coreLogic.noise_ * coreLogic.amplitude_ * BaseScale) \div NoiseScale

\* C12: a generated sample differs from the noiseless value (amplitude
\* times the base wave value at the same time and parameters) by at most
\* noise level times amplitude, either way; with noise level 0 the
\* difference is 0 and the sample does not depend on the random source.
C12_NoiseBound ==
  JustUpdated =>
    /\ Deviation >= -NoiseLimit
    /\ Deviation <= NoiseLimit
    /\ coreLogic.noise_ = 0 =>
          /\ Deviation = 0
          /\ \A u \in UValues :
                GenerateWaveValue(coreLogic, coreLogic.time_, u) = NoiselessValue

\* C12 witness: a sample generated at noise level 1 lies on the lower edge
\* of the allowed band.
C12_SampleOnLowerEdge ==
  /\ JustUpdated
  /\ coreLogic.noise_ = 1 * NoiseScale
  /\ NoiseLimit > 0
  /\ Deviation = -NoiseLimit

\* The angle of the call: adjusted_time
Angle == AdjustedTime(coreLogic, args.time)

\* GenerateWaveValue has returned for amplitude 1, phase 0, noise 0 and an
\* angle of exactly 0.
AtAngleZero ==
  /\ pc = "returned"
  /\ coreLogic.amplitude_ = 1 * AmpScale
  /\ coreLogic.phase_ = 0
  /\ coreLogic.noise_ = 0
  /\ Angle = 0

\* C13: with amplitude 1, phase 0 and noise 0, at an angle of exactly 0
\* GenerateWaveValue returns 0 for Sine, 1 for Cosine, +1 for Square, 0
\* for Triangle and -1 for Sawtooth.
C13_ValuesAtAngleZero ==
  AtAngleZero =>
    result = CASE coreLogic.wave_type_ = SINE -> 0
               [] coreLogic.wave_type_ = COSINE -> SampleScale
               [] coreLogic.wave_type_ = SQUARE -> SampleScale
               [] coreLogic.wave_type_ = TRIANGLE -> 0
               [] coreLogic.wave_type_ = SAWTOOTH -> -SampleScale

\* C13 witness: the square wave evaluated at angle 0.
C13_SquareAtZero ==
  AtAngleZero /\ coreLogic.wave_type_ = SQUARE /\ result = SampleScale

\* C14: with the square wave and noise 0 a sample is exactly +amplitude or
\* -amplitude, never 0 or a value in between, and it is +amplitude exactly
\* when the sine of the angle is >= 0.
C14_SquareIsPlusOrMinusAmplitude ==
  (pc = "returned" /\ coreLogic.wave_type_ = SQUARE /\ coreLogic.noise_ = 0) =>
    LET amplitude == coreLogic.amplitude_ * BaseScale
    IN /\ result \in {amplitude, -amplitude}
       /\ result # 0
       /\ result = amplitude <=> Sin(Angle) >= 0

\* C14 witness: a square sample of -2 at amplitude 2.
C14_MinusTwo ==
  /\ pc = "returned"
  /\ coreLogic.wave_type_ = SQUARE
  /\ coreLogic.amplitude_ = 2 * AmpScale
  /\ Sin(Angle) < 0
  /\ result = -2 * SampleScale

\* What a theme operation works on: the theme members of the Gui, the
\* static current theme and the preference file.
ThemeState ==
  << gui.currentThemeIndex, gui.themeChanged, gui.showThemeNotification,
     gui.themeNotificationTimer, gui.currentThemeName, currentTheme, configFile >>

\* C15: a theme operation (applying, cycling, selecting, resetting or
\* loading a theme, or the notification timer) leaves simulated time, the
\* history, wave type, frequency, amplitude, phase, noise and sample rate
\* as they were; of the engine only the wave colour may change, and an
\* Update does to an engine with another wave colour what it does to this
\* one.
C15_ThemeOperationsKeepTheCore ==
  /\ [][ThemeState' # ThemeState =>
          coreLogic' = [coreLogic EXCEPT !.wave_color_ = coreLogic'.wave_color_]]_vars
  /\ [](\A u \in UValues :
          LET rgb == ThemeAt((gui.currentThemeIndex + 1) % GetThemeCount).primary
          IN Update(SetWaveColor(coreLogic, rgb), u)
               = SetWaveColor(Update(coreLogic, u), rgb))

\* C15 witness: a theme other than the loaded one was applied to an engine
\* that has a history, and the wave colour followed it.
C15_ThemeAppliedToRunningEngine ==
  /\ nticks > 0
  /\ inputs > 0
  /\ gui.currentThemeIndex = 1
  /\ coreLogic.wave_color_ = ThemeAt(1).primary
  /\ Len(history) = nticks

\* C16: every value the Gui writes into the engine is inside the
\* documented range: frequency in [0.1, 100], amplitude in [0.1, 10], phase
\* in [0, 2 pi], noise in [0, 1], sample rate in [5, 600] and the wave type
\* one of the five; so the sample rate is positive in every reachable state.
C16_WrittenValuesInRange ==
  /\ coreLogic.frequency_ >= 1 /\ coreLogic.frequency_ <= 100 * FreqScale
  /\ coreLogic.amplitude_ >= 1 /\ coreLogic.amplitude_ <= 10 * AmpScale
  /\ coreLogic.phase_ >= 0 /\ coreLogic.phase_ <= TURN
  /\ coreLogic.noise_ >= 0 /\ coreLogic.noise_ <= 1 * NoiseScale
  /\ coreLogic.fps_ >= 5 /\ coreLogic.fps_ <= 600
  /\ coreLogic.wave_type_ \in WaveTypes
  /\ coreLogic.fps_ > 0

\* The index the preference file holds, as LoadThemePreference reads it.
SavedIndex == Stoi(configFile.current_theme)

\* Gui::Initialize has read the preference file and returned true.
Loaded == pc = "loop"

\* C17: whatever config/theme.cfg holds (no file, an index out of range or
\* negative, a non-numeric index, the name of a removed theme), after
\* LoadThemePreference the current theme index is within [0, theme count),
\* and it is 0 whenever the saved index is out of range.
C17_LoadFallsBackToDefault ==
  Loaded =>
    /\ gui.currentThemeIndex >= 0
    /\ gui.currentThemeIndex < GetThemeCount
    /\ (/\ configFile.exists
        /\ SavedIndex.ok
        /\ (SavedIndex.value < 0 \/ SavedIndex.value >= GetThemeCount))
         => gui.currentThemeIndex = 0

\* C17 witness: a file with a negative index was loaded.
C17_NegativeIndexLoaded ==
  /\ Loaded
  /\ configFile.exists
  /\ SavedIndex.ok
  /\ SavedIndex.value < 0
  /\ gui.currentThemeIndex = 0
  /\ currentTheme = ThemeAt(0)

\* C18: the running flag starts true and only ever changes to false (by
\* SDL_QUIT in ProcessEvents or by File > Exit in Render), never back; once
\* it is false the native loop leaves at its next test of the flag, and no
\* Update runs after the quit.
C18_QuitEndsTheNativeLoop ==
  /\ gui.running
  /\ [][~gui.running => ~gui'.running]_vars
  /\ [][(gui.running /\ ~gui'.running) =>
          (pc \in {"events", "render"} \/ (pc = "loop" /\ platform = "emscripten"))]_vars
  /\ [][(platform = "native" /\ ~gui.running) =>
          /\ nticks' = nticks
          /\ pc = "loop" => pc' = "exit"]_vars
  /\ []((platform = "native" /\ ~gui.running) => pc \notin {"tick", "events"})

\* C18 witness: the native program has left its loop after a quit that came
\* when samples had been generated.
C18_NativeLoopLeft ==
  /\ platform = "native"
  /\ pc = "exit"
  /\ ~gui.running
  /\ nticks > 0
  /\ inputs > 0

\* C19, as claimed: within one Update the eviction comes before or with
\* the append, so the history holds at most MAX_VALUES elements at every
\* intermediate step of the operation too.
C19_NeverOverCapacityWithinUpdate == ~(Len(history) > MAX_VALUES)

\* C19, amended: within one Update the append comes first, so a full
\* history holds MAX_VALUES + 1 elements between the append and the
\* eviction, and only there; it never holds more, and when Update returns
\* it holds at most MAX_VALUES and is what the whole Update makes of it.
C19_OverCapacityOnlyBeforeErase ==
  /\ Len(history) <= MAX_VALUES + 1
  /\ Len(history) = MAX_VALUES + 1 => pc = "erase"
  /\ (pc = "erase" /\ nticks >= MAX_VALUES) => Len(history) = MAX_VALUES + 1
  /\ pc = "call" => (Len(history) <= MAX_VALUES /\ coreLogic = twin)

\* C19 witness: a full history between push_back and erase.
C19_BetweenAppendAndErase ==
  /\ pc = "erase"
  /\ nticks = MAX_VALUES + 1
  /\ Len(history) = MAX_VALUES + 1

\* |x|
Abs(x) == IF x < 0 THEN -x ELSE x

\* C20: for Triangle and Sawtooth and every angle, negative ones included,
\* the normalised phase n lies in [0, 1) and is the angle modulo one period;
\* the Triangle base value is 4n for n < 0.25, 2 - 4n for 0.25 <= n < 0.75
\* and 4n - 4 for n >= 0.75, the Sawtooth base value is 2n - 1; both lie in
\* [-1, 1], and from one angle to the next the value moves by no more than
\* the slope allows (no jump at a piece boundary), the Sawtooth's wrap from
\* n just below 1 to n = 0 apart.
C20_TriangleAndSawtoothPieces ==
  (pc = "returned" /\ coreLogic.wave_type_ \in {TRIANGLE, SAWTOOTH}) =>
    LET n == Normalized(Angle)
        base == BaseValue(coreLogic.wave_type_, Angle)
        after == BaseValue(coreLogic.wave_type_, Angle + 1)
    IN /\ n >= 0 /\ n < TURN
       /\ (Angle - n) % TURN = 0
       /\ base >= -BaseScale /\ base <= BaseScale
       /\ result = base * coreLogic.amplitude_
       /\ coreLogic.wave_type_ = TRIANGLE =>
             /\ 4 * n < TURN => base * TURN = 4 * n * BaseScale
             /\ (4 * n >= TURN /\ 4 * n < 3 * TURN) =>
                  base * TURN = 2 * BaseScale * TURN - 4 * n * BaseScale
             /\ 4 * n >= 3 * TURN =>
                  base * TURN = 4 * n * BaseScale - 4 * BaseScale * TURN
             /\ Abs(after - base) * TURN <= 4 * BaseScale
       /\ coreLogic.wave_type_ = SAWTOOTH =>
             /\ base * TURN = 2 * n * BaseScale - BaseScale * TURN
             /\ n + 1 < TURN => Abs(after - base) * TURN <= 2 * BaseScale

\* C20 witness: the triangle at a quarter period below zero, where the
\* normalised phase is 0.75 and the last piece begins at -1.
C20_TriangleAtMinusQuarter ==
  /\ pc = "returned"
  /\ coreLogic.wave_type_ = TRIANGLE
  /\ Angle = -(TURN \div 4)
  /\ 4 * Normalized(Angle) = 3 * TURN
  /\ result = -(coreLogic.amplitude_ * BaseScale)

\* The theme index before the last step of the theme shortcuts.
IndexBefore == result.before.gui.currentThemeIndex

\* C21, as claimed: handling a Ctrl+Shift+T key-down moves the current
\* theme index from i to (i - 1 + N) mod N, and that index is saved.
C21_CtrlShiftTSelectsPrevious ==
  (pc = "key" /\ args.type = "SDL_KEYDOWN" /\ args.sym = "t"
              /\ args.ctrl /\ args.shift) =>
    /\ gui.currentThemeIndex = (IndexBefore - 1 + GetThemeCount) % GetThemeCount
    /\ configFile.exists
    /\ configFile.current_theme = IntToText(gui.currentThemeIndex)

\* C22: handling a Ctrl+T key-down with Shift not held moves the current
\* theme index from i to (i + 1) mod N and saves the new index with the
\* theme's name; N presses in a row come back to the theme they began at.
C22_CtrlTSelectsNext ==
  (pc = "key" /\ PlainCtrlT(args)) =>
    /\ gui.currentThemeIndex = (IndexBefore + 1) % GetThemeCount
    /\ currentTheme = ThemeAt(gui.currentThemeIndex)
    /\ configFile = ThemeFile(IntToText(gui.currentThemeIndex),
                              ThemeAt(gui.currentThemeIndex).name)
    /\ result.presses = GetThemeCount => gui.currentThemeIndex = result.start

\* C22 witness: N presses of Ctrl+T in a row, begun at theme 4, are done.
C22_FullCycle ==
  /\ pc = "key"
  /\ PlainCtrlT(args)
  /\ result.presses = GetThemeCount
  /\ result.start = 4
  /\ gui.currentThemeIndex = 4

\* C23: the preference SaveThemePreference wrote while theme i was applied,
\* loaded by LoadThemePreference in a fresh Gui, gives current theme index
\* i and current theme name themes[i].name.
C23_SaveLoadRoundTrip ==
  (pc = "restarted" /\ configFile.exists) =>
    /\ gui.currentThemeIndex = IndexBefore
    /\ gui.currentThemeName = ThemeAt(IndexBefore).name
    /\ currentTheme = ThemeAt(IndexBefore)

\* C23 witness: the program was started again after Ctrl+T had applied and
\* saved the last theme, and it came up with that theme.
C23_LastThemeRestored ==
  /\ pc = "restarted"
  /\ inputs > 0
  /\ PlainCtrlT(args)
  /\ IndexBefore = GetThemeCount - 1
  /\ configFile.current_theme = <<"5">>
  /\ gui.currentThemeIndex = GetThemeCount - 1

\* C24: ApplyTheme called with an index below 0 or not below the theme
\* count changes nothing: index, name, active theme, themeChanged, the
\* notification flag and timer, the engine and the file keep their values.
C24_ApplyThemeOutOfRangeChangesNothing ==
  (pc = "applied"
     /\ (args.themeIndex < 0 \/ args.themeIndex >= GetThemeCount)) =>
    State = result.before

\* C24 witness: ApplyTheme(N) was called while a selected theme was waiting
\* to be applied and the notification was shown.
C24_OnePastTheEnd ==
  /\ pc = "applied"
  /\ args.themeIndex = GetThemeCount
  /\ gui.themeChanged
  /\ gui.showThemeNotification

\* C25: after ApplyTheme(i) with 0 <= i < N the current theme index is i,
\* the name is themes[i].name, the active theme is themes[i], the wave
\* colour is themes[i].primary, themeChanged is false and the notification
\* is shown with 3 seconds on its timer.
C25_ApplyThemeEffects ==
  (pc = "applied"
     /\ args.themeIndex >= 0 /\ args.themeIndex < GetThemeCount) =>
    /\ gui.currentThemeIndex = args.themeIndex
    /\ gui.currentThemeName = ThemeAt(args.themeIndex).name
    /\ currentTheme = ThemeAt(args.themeIndex)
    /\ coreLogic.wave_color_ = ThemeAt(args.themeIndex).primary
    /\ ~gui.themeChanged
    /\ gui.showThemeNotification
    /\ gui.themeNotificationTimer = 3

\* C25 witness: ApplyTheme(3) replaced a custom wave colour.
C25_CustomColorOverwritten ==
  /\ pc = "applied"
  /\ args.themeIndex = 3
  /\ result.before.core.wave_color_ \in ColorValues
  /\ coreLogic.wave_color_ = ThemeAt(3).primary

\* C26: while the notification is shown and no theme waits to be applied,
\* a Gui::Update with a positive frame delta makes the timer strictly
\* smaller and hides the notification exactly when the timer has reached 0
\* or less; a theme applied from the menu puts the timer back to 3; and
\* with frames running, a shown notification is eventually hidden.
C26_NotificationIsTransient ==
  /\ [][(pc' = "frame" /\ gui.showThemeNotification /\ ~gui.themeChanged) =>
          /\ gui'.themeNotificationTimer < gui.themeNotificationTimer
          /\ gui'.showThemeNotification = (gui'.themeNotificationTimer > 0)]_vars
  /\ [][pc' = "applied" =>
          /\ gui'.showThemeNotification
          /\ gui'.themeNotificationTimer = 3]_vars
  /\ (gui.showThemeNotification ~> ~gui.showThemeNotification)

\* C26 witness: after a theme change the notification has been hidden by a
\* frame that brought the timer below zero.
C26_NotificationHidden ==
  /\ pc = "frame"
  /\ inputs = MaxThemeChanges
  /\ ~gui.showThemeNotification
  /\ gui.themeNotificationTimer < 0

\* C27, as claimed: in percentage mode, after CalculateResponsivePanelSizes
\* the left and right sidebar widths are each at least 200 and the bottom
\* bar height is at least 100.
C27_MinimumSizesAlways ==
  (pc = "sized" /\ gui.usePercentageSizing) =>
    /\ gui.currentLeftSidebarWidth >= minPanelWidth
    /\ gui.currentRightSidebarWidth >= minPanelWidth
    /\ gui.currentBottomBarHeight >= minPanelHeight

\* C27: in percentage mode, after CalculateResponsivePanelSizes the bottom
\* bar height is at least 100; the sidebar widths are each at least 200
\* unless they were scaled down, by one factor, to share 80% of the
\* available width; and they are not scaled down when the available width
\* is at least 500 and neither stored percentage exceeds 40.
C27_MinimumSizesUnlessScaled ==
  (pc = "sized" /\ gui.usePercentageSizing) =>
    LET left == gui.currentLeftSidebarWidth
        right == gui.currentRightSidebarWidth
        share == SidebarShare(args.availableWidth)
    IN /\ gui.currentBottomBarHeight >= minPanelHeight
       /\ \/ left >= minPanelWidth /\ right >= minPanelWidth
          \/ share - 2 <= left + right /\ left + right <= share
       /\ left + right <= share
       /\ (/\ args.availableWidth >= 500 * PixelScale
           /\ gui.leftSidebarWidthPercent <= 40 * PercentScale
           /\ gui.rightSidebarWidthPercent <= 40 * PercentScale)
          => (left >= minPanelWidth /\ right >= minPanelWidth)

\* C27 witness: with 400 pixels available both sidebars came out at 160.
C27_ScaledBelowMinimum ==
  /\ pc = "sized"
  /\ gui.usePercentageSizing
  /\ args.availableWidth = 400 * PixelScale
  /\ gui.currentLeftSidebarWidth = 160 * PixelScale
  /\ gui.currentRightSidebarWidth = 160 * PixelScale
  /\ gui.currentBottomBarHeight = minPanelHeight

\* The arguments of the last SetPanelWidthPercent, clamped.
ClampedLeft == Clamp(args.leftPercent, 10 * PercentScale, 40 * PercentScale)

ClampedRight == Clamp(args.rightPercent, 10 * PercentScale, 40 * PercentScale)

\* C28: after SetPanelWidthPercent(l, r) each stored sidebar percentage is
\* in [10, 40] and their sum is at most 70; when the clamped arguments sum
\* to more than 70 the stored percentages are in the ratio of the clamped
\* arguments (to within the rounding of a stored value).
C28_WidthPercentsClampedAndScaled ==
  pc = "widths" =>
    /\ gui.leftSidebarWidthPercent >= 10 * PercentScale
    /\ gui.leftSidebarWidthPercent <= 40 * PercentScale
    /\ gui.rightSidebarWidthPercent >= 10 * PercentScale
    /\ gui.rightSidebarWidthPercent <= 40 * PercentScale
    /\ gui.leftSidebarWidthPercent + gui.rightSidebarWidthPercent
         <= 70 * PercentScale
    /\ IF ClampedLeft + ClampedRight > 70 * PercentScale
         THEN Abs(gui.leftSidebarWidthPercent * ClampedRight
                  - gui.rightSidebarWidthPercent * ClampedLeft)
              < MaxOf(ClampedLeft, ClampedRight)
         ELSE /\ gui.leftSidebarWidthPercent = ClampedLeft
              /\ gui.rightSidebarWidthPercent = ClampedRight

\* C28 witness: SetPanelWidthPercent(45, 40) clamped 45 to 40 and stored
\* 35 and 35.
C28_ScaledToSeventy ==
  /\ pc = "widths"
  /\ args.leftPercent = 45 * PercentScale
  /\ args.rightPercent = 40 * PercentScale
  /\ gui.leftSidebarWidthPercent = 35 * PercentScale
  /\ gui.rightSidebarWidthPercent = 35 * PercentScale

\* C29: in every state of the program (after construction, the preference
\* load, the theme shortcuts, the theme menu, the theme buttons and combo,
\* and Reset to Default) the current theme index is at least 0 and below
\* the number of themes.
C29_ThemeIndexInRange ==
  /\ gui.currentThemeIndex >= 0
  /\ gui.currentThemeIndex < GetThemeCount

\* C29 witness: the last theme was selected with its button and waits for
\* Gui::Update to apply it.
C29_LastThemeSelected ==
  /\ gui.currentThemeIndex = GetThemeCount - 1
  /\ gui.themeChanged
  /\ pc = "loop"

\* What a sample is computed from, besides the time.
SampleParameters(c) ==
  <<c.wave_type_, c.frequency_, c.amplitude_, c.phase_, c.noise_, c.fps_>>

\* C30: no step of the GUI changes the simulated time or a sample of the
\* history; the parameters a sample is computed from and the pause flag
\* change only in Render, which follows the tick of its loop iteration, so
\* the tick of an iteration has run before that iteration's writes; and
\* the next tick computes its sample from the parameters as written, or
\* does nothing if the pause flag was set.
C30_WritesTakeEffectNextFrame ==
  /\ [][pc # "tick" =>
          /\ coreLogic'.time_ = coreLogic.time_
          /\ coreLogic'.sine_wave_values_ = coreLogic.sine_wave_values_
          /\ generated' = generated]_vars
  /\ [][(SampleParameters(coreLogic') # SampleParameters(coreLogic)
            \/ gui'.paused # gui.paused) =>
          /\ pc = "render"
          /\ iterPaused # "untested"
          /\ iterUpdates' = iterUpdates]_vars
  /\ [][pc = "tick" =>
          IF gui.paused
            THEN nticks' = nticks /\ coreLogic' = coreLogic
            ELSE /\ nticks' = nticks + 1
                 /\ \E u \in UValues :
                      generated'[Len(generated')]
                        = GenerateWaveValue(coreLogic, coreLogic'.time_, u)]_vars

\* C30 witness: a frequency written in one frame, after that frame's tick,
\* is in the sample of the next frame's tick and in no earlier sample.
C30_WrittenFrequencyInNextSample ==
  /\ JustUpdated
  /\ inputs = 1
  /\ nticks = 2
  /\ coreLogic.frequency_ = 1000
  /\ generated[1] = Sin(TURN \div 60) * AmpScale
  /\ generated[2] = GenerateWaveValue(coreLogic, coreLogic.time_, 0)
  /\ generated[2] # GenerateWaveValue(CoreLogicInit, coreLogic.time_, 0)

====
